---- MODULE Spec2Model ----
(***************************************************************************)
(* Roster assignment for interviewers (roster_assignment.py).              *)
(*                                                                         *)
(* read_interviewers loads interviewer rows from a CSV file, skipping the  *)
(* rows it cannot convert; assign_slots distributes a target number of     *)
(* interview slots over the interviewers available for a shift, in         *)
(* proportion to their per-shift slot limits (floor of the ideal share,    *)
(* then one pass over the fractional remainders).                          *)
(*                                                                         *)
(* Python dicts are modelled as sequences of [key, val] items in insertion *)
(* order.  The float ideal_slots = (capacity / total_available) * target   *)
(* is modelled as the exact fraction capacity * target / total_available;  *)
(* a remainder is kept as its numerator over the common denominator        *)
(* total_available.  For slot limits up to 3, up to 4 interviewers and     *)
(* targets up to 13 the double-precision floors and remainder order equal  *)
(* the exact ones (they first differ with a slot limit of 4).              *)
(***************************************************************************)
EXTENDS Integers, Sequences, FiniteSets, TLC

VARIABLES
    pc,                    \* "reading" | "load_failed" | "loaded" | "done"
    csv_rows,              \* the data rows of the CSV file, as csv.DictReader yields them
    row_num,               \* read_interviewers: number of the row being read (header is row 1)
    skipped,               \* read_interviewers: row numbers logged as skipped
    load_error,            \* read_interviewers: the error raised, "" if none
    interviewers,          \* the list of interviewer records
    total_expected_slots,  \* assign_slots argument
    shift,                 \* assign_slots argument
    result,                \* what assign_slots returned or raised
    slot_duration,         \* calculate_default_slots argument
    default_slots          \* what calculate_default_slots returned or raised

vars == <<pc, csv_rows, row_num, skipped, load_error, interviewers, total_expected_slots, shift,
          result, slot_duration, default_slots>>

(***************************************************************************)
(* Bounds of the model.                                                    *)
(***************************************************************************)
MaxCap == 2          \* largest per-shift slot limit of an interviewer
MaxTarget == 7       \* largest total_expected_slots
MaxRows == 2         \* most data rows in a CSV file
MaxDuration == 900   \* longest slot duration, in minutes

\* Interviewer ids, listed in ascending string order.
IdOrder == <<"A", "B", "C">>
Ids == {IdOrder[i] : i \in DOMAIN IdOrder}

None == "<None>"     \* Python's None (a cell csv.DictReader could not fill)
NoResult == [status |-> "none"]

(***************************************************************************)
(* Helpers for Python built-ins.                                           *)
(***************************************************************************)
\* a < b on id strings
IdLess(a, b) ==
    (CHOOSE i \in DOMAIN IdOrder : IdOrder[i] = a) < (CHOOSE i \in DOMAIN IdOrder : IdOrder[i] = b)

\* str.lower() on the shift names the model passes
Lower(s) ==
    CASE s = "Night" -> "night"
      [] s = "Day" -> "day"
      [] OTHER -> s

\* d[k] = v on a dict: a new key goes last, an existing key keeps its place
RECURSIVE DictSet(_, _, _)
DictSet(d, k, v) ==
    IF d = <<>> THEN <<[key |-> k, val |-> v]>>
    ELSE IF Head(d).key = k THEN <<[key |-> k, val |-> v]>> \o Tail(d)
    ELSE <<Head(d)>> \o DictSet(Tail(d), k, v)

\* d[k]
DictGet(d, k) == d[CHOOSE i \in DOMAIN d : d[i].key = k].val

\* sum(d.values())
RECURSIVE SumValues(_)
SumValues(d) == IF d = <<>> THEN 0 ELSE Head(d).val + SumValues(Tail(d))

\* the dict as the mapping it denotes (dict equality ignores insertion order)
AsMapping(d) == [k \in {d[i].key : i \in DOMAIN d} |-> DictGet(d, k)]

(***************************************************************************)
(* assign_slots                                                            *)
(***************************************************************************)
\* Variant: the target check written with < instead of <=.
ValidTargetAcceptsZero(total) == total >= 0

\* total_expected_slots <= 0 is rejected (the model passes ints only)
ValidTarget(total) == total > 0

\* Variant: the day column is read whatever the shift.
AvailFieldAlwaysDay(sh) == "Day_Available"

AvailField(sh) == IF sh = "day" THEN "Day_Available" ELSE "Night_Available"
SlotField(sh) == IF sh = "day" THEN "Day_Slots" ELSE "Night_Slots"

\* [iv for iv in interviewers if iv[avail_field]]
AvailableInterviewers(ivs, avail_field) == SelectSeq(ivs, LAMBDA iv : iv[avail_field])

\* sum(iv[slot_field] for iv in available_interviewers)
RECURSIVE TotalAvailable(_, _)
TotalAvailable(avail, slot_field) ==
    IF avail = <<>> THEN 0
    ELSE Head(avail)[slot_field] + TotalAvailable(Tail(avail), slot_field)

\* Variant: math.ceil instead of math.floor.
CeilShare(capacity, total_available, total) ==
    (capacity * total + total_available - 1) \div total_available

\* math.floor((capacity / total_available) * total_expected_slots)
FloorShare(capacity, total_available, total) == (capacity * total) \div total_available

\* ideal_slots - assigned, as a numerator over total_available
Remainder(capacity, total_available, total, assigned) ==
    capacity * total - assigned * total_available

\* the first loop: assignments[iid], remainders[iid] for every available interviewer
RECURSIVE InitialShares(_, _, _, _, _)
InitialShares(avail, slot_field, total_available, total, acc) ==
    IF avail = <<>> THEN acc
    ELSE LET iv == Head(avail)
             iid == iv.Interviewer_ID
             capacity == iv[slot_field]
             assigned == FloorShare(capacity, total_available, total)
         IN InitialShares(Tail(avail), slot_field, total_available, total,
                [assignments |-> DictSet(acc.assignments, iid, assigned),
                 remainders |-> DictSet(acc.remainders, iid,
                                   Remainder(capacity, total_available, total, assigned))])

\* Variant: key=lambda x: -x[1], ties left in dict order.
KeyBeforeNoTieBreak(x, y) == x.val > y.val

\* Variant: ties broken by descending id.
KeyBeforeDescendingId(x, y) == x.val > y.val \/ (x.val = y.val /\ IdLess(y.key, x.key))

\* key=lambda x: (-x[1], x[0]): x sorts strictly before y
KeyBefore(x, y) == x.val > y.val \/ (x.val = y.val /\ IdLess(x.key, y.key))

\* sorted(): stable, so an item goes after every item that does not sort after it
RECURSIVE InsertSorted(_, _)
InsertSorted(sorted, x) ==
    IF sorted = <<>> THEN <<x>>
    ELSE IF KeyBefore(x, Head(sorted)) THEN <<x>> \o sorted
    ELSE <<Head(sorted)>> \o InsertSorted(Tail(sorted), x)

RECURSIVE SortedItems(_)
SortedItems(d) ==
    IF d = <<>> THEN <<>>
    ELSE InsertSorted(SortedItems(SubSeq(d, 1, Len(d) - 1)), d[Len(d)])

\* next(iv for iv in available_interviewers if iv['Interviewer_ID'] == iid)
FirstWithId(avail, iid) == avail[CHOOSE i \in DOMAIN avail :
    /\ avail[i].Interviewer_ID = iid
    /\ \A j \in 1..(i - 1) : avail[j].Interviewer_ID # iid]

\* Variant: the loop stops one slot early (remaining_slots <= 1).
RECURSIVE LeftoverLoopStopsEarly(_, _, _, _, _)
LeftoverLoopStopsEarly(order, avail, slot_field, assignments, remaining_slots) ==
    IF order = <<>> \/ remaining_slots <= 1
    THEN [assignments |-> assignments, remaining_slots |-> remaining_slots]
    ELSE LET iid == Head(order).key
             capacity == FirstWithId(avail, iid)[slot_field]
         IN IF DictGet(assignments, iid) < capacity
            THEN LeftoverLoopStopsEarly(Tail(order), avail, slot_field,
                     DictSet(assignments, iid, DictGet(assignments, iid) + 1),
                     remaining_slots - 1)
            ELSE LeftoverLoopStopsEarly(Tail(order), avail, slot_field, assignments,
                     remaining_slots)

\* the second loop: one pass over the sorted remainders
RECURSIVE LeftoverLoop(_, _, _, _, _)
LeftoverLoop(order, avail, slot_field, assignments, remaining_slots) ==
    IF order = <<>> \/ remaining_slots <= 0
    THEN [assignments |-> assignments, remaining_slots |-> remaining_slots]
    ELSE LET iid == Head(order).key
             capacity == FirstWithId(avail, iid)[slot_field]
         IN IF DictGet(assignments, iid) < capacity
            THEN LeftoverLoop(Tail(order), avail, slot_field,
                     DictSet(assignments, iid, DictGet(assignments, iid) + 1),
                     remaining_slots - 1)
            ELSE LeftoverLoop(Tail(order), avail, slot_field, assignments, remaining_slots)

Raised(err) == [status |-> "error", error |-> err]

assign_slots(ivs, total, sh0) ==
    IF ~ValidTarget(total) THEN Raised("InvalidTarget")
    ELSE LET sh == Lower(sh0) IN
    IF sh \notin {"day", "night"} THEN Raised("InvalidShift")
    ELSE LET avail_field == AvailField(sh)
             slot_field == SlotField(sh)
             available_interviewers == AvailableInterviewers(ivs, avail_field)
         IN
    IF available_interviewers = <<>> THEN Raised("NoInterviewersAvailable")
    ELSE LET total_available == TotalAvailable(available_interviewers, slot_field) IN
    IF total_available = 0 THEN Raised("NoAvailableSlots")
    ELSE LET first == InitialShares(available_interviewers, slot_field, total_available,
                          total, [assignments |-> <<>>, remainders |-> <<>>])
             assigned_total == SumValues(first.assignments)
             second == LeftoverLoop(SortedItems(first.remainders), available_interviewers,
                           slot_field, first.assignments, total - assigned_total)
         IN [status |-> "ok",
             assignments |-> AsMapping(second.assignments),
             available |-> available_interviewers,
             total_available |-> total_available,
             shortfall_warning |-> second.remaining_slots > 0,
             remaining_slots |-> second.remaining_slots]

(***************************************************************************)
(* The inputs of the allocation model: lists of valid records with unique  *)
(* ids in any list order.  The day columns take every value; the night     *)
(* columns take the two NightCases.                                        *)
(***************************************************************************)
NightCases == {[avail |-> FALSE, slots |-> MaxCap], [avail |-> TRUE, slots |-> 1]}

Records ==
    {[Interviewer_ID |-> i, Day_Available |-> da, Day_Slots |-> ds,
      Night_Available |-> n.avail, Night_Slots |-> n.slots] :
        i \in Ids, da \in BOOLEAN, ds \in 0..MaxCap, n \in NightCases}

UniqueIds(ivs) ==
    \A i, j \in DOMAIN ivs : ivs[i].Interviewer_ID = ivs[j].Interviewer_ID => i = j

Rosters ==
    UNION {{ivs \in [1..n -> Records] : UniqueIds(ivs)} : n \in 1..Cardinality(Ids)}

Targets == 0..MaxTarget
Shifts == {"day", "Night", "noon"}

Init ==
    /\ pc = "loaded"
    /\ csv_rows = <<>>
    /\ row_num = 2
    /\ skipped = <<>>
    /\ load_error = ""
    /\ interviewers \in Rosters
    /\ total_expected_slots = 0
    /\ shift = "day"
    /\ result = NoResult
    /\ slot_duration = 40
    /\ default_slots = NoResult

\* main: assignments, available_interviewers = assign_slots(interviewers, total, shift)
AssignSlots ==
    /\ pc = "loaded"
    /\ \E total \in Targets, sh \in Shifts :
          /\ total_expected_slots' = total
          /\ shift' = sh
          /\ result' = assign_slots(interviewers, total, sh)
    /\ pc' = "done"
    /\ UNCHANGED <<csv_rows, row_num, skipped, load_error, interviewers, slot_duration, default_slots>>

Next == AssignSlots

Spec == Init /\ [][Next]_vars

(***************************************************************************)
(* read_interviewers, from the loop over the data rows on: the file exists *)
(* and its header has the required columns.  One step per data row.        *)
(***************************************************************************)
\* value.strip().lower() on the cell texts the model uses
StripLower(s) ==
    CASE s = "True" -> "true"
      [] s = "FALSE" -> "false"
      [] s = " false " -> "false"
      [] OTHER -> s

\* int(text): the texts that convert, and their values
IntTexts == {"0", "2", " 1 ", "-1"}
IntOf(s) ==
    CASE s = "0" -> 0
      [] s = "2" -> 2
      [] s = " 1 " -> 1
      [] s = "-1" -> 0 - 1

Converted(v) == [outcome |-> "ok", value |-> v]
Failed(kind) == [outcome |-> kind]

\* row.get(field, '').strip().lower(), the true/false test, value == 'true'.
\* The key is present in every row, so a missing cell yields None, and
\* None.strip() raises AttributeError.
ConvertFlag(cell) ==
    IF cell = None THEN Failed("AttributeError")
    ELSE IF StripLower(cell) \notin {"true", "false"} THEN Failed("ValueError")
    ELSE Converted(StripLower(cell) = "true")

\* int(row[field]) and the sign test; int(None) raises TypeError
ConvertSlots(cell) ==
    IF cell = None THEN Failed("TypeError")
    ELSE IF cell \notin IntTexts THEN Failed("ValueError")
    ELSE IF IntOf(cell) < 0 THEN Failed("ValueError")
    ELSE Converted(IntOf(cell))

\* the body of the row loop: the two flag fields, then the two slot fields;
\* the first conversion that raises ends it
ConvertRow(row) ==
    LET da == ConvertFlag(row.Day_Available)
        na == ConvertFlag(row.Night_Available)
        ds == ConvertSlots(row.Day_Slots)
        ns == ConvertSlots(row.Night_Slots)
    IN IF da.outcome # "ok" THEN da
       ELSE IF na.outcome # "ok" THEN na
       ELSE IF ds.outcome # "ok" THEN ds
       ELSE IF ns.outcome # "ok" THEN ns
       ELSE Converted([Interviewer_ID |-> row.Interviewer_ID,
                       Day_Available |-> da.value, Night_Available |-> na.value,
                       Day_Slots |-> ds.value, Night_Slots |-> ns.value])

\* The cell texts of the files the model reads.
DayFlagCells == {"True", "yes", None}
NightFlagCells == {"FALSE", "", None}
DaySlotCells == {"2", "x", None}
NightSlotCells == {" 1 ", "-1", None}

\* csv.DictReader fills the cells a short row lacks with None: the columns
\* left empty are the last ones of the header, so within one file the sets of
\* None columns of any two rows are nested.
NoneColumns(cells) == {f \in DOMAIN cells : cells[f] = None}
ShortRowsNested(rows) ==
    \A i, j \in DOMAIN rows :
        NoneColumns(rows[i]) \subseteq NoneColumns(rows[j])
        \/ NoneColumns(rows[j]) \subseteq NoneColumns(rows[i])

\* Files of up to MaxRows data rows; row k carries the k-th id.
CsvFiles ==
    UNION {{rows \in [1..n -> [Day_Available : DayFlagCells, Night_Available : NightFlagCells,
                               Day_Slots : DaySlotCells, Night_Slots : NightSlotCells]]
              : ShortRowsNested(rows)}
           : n \in 0..MaxRows}

WithIds(cells) ==
    [k \in DOMAIN cells |->
        [Interviewer_ID |-> IdOrder[((k - 1) % Len(IdOrder)) + 1],
         Day_Available |-> cells[k].Day_Available,
         Night_Available |-> cells[k].Night_Available,
         Day_Slots |-> cells[k].Day_Slots,
         Night_Slots |-> cells[k].Night_Slots]]

InitRead ==
    /\ pc = "reading"
    /\ \E cells \in CsvFiles : csv_rows = WithIds(cells)
    /\ row_num = 2
    /\ skipped = <<>>
    /\ load_error = ""
    /\ interviewers = <<>>
    /\ total_expected_slots = 0
    /\ shift = "day"
    /\ result = NoResult
    /\ slot_duration = 40
    /\ default_slots = NoResult

\* enumerate(reader, start=2): the row numbered row_num
HasRow == row_num - 1 <= Len(csv_rows)
CurrentRow == csv_rows[row_num - 1]

\* the row converts: interviewers.append(row)
AppendRow ==
    /\ pc = "reading" /\ HasRow
    /\ ConvertRow(CurrentRow).outcome = "ok"
    /\ interviewers' = Append(interviewers, ConvertRow(CurrentRow).value)
    /\ row_num' = row_num + 1
    /\ UNCHANGED <<pc, csv_rows, skipped, load_error, total_expected_slots, shift, result, slot_duration, default_slots>>

\* except (ValueError, KeyError): the row is logged and skipped
SkipRow ==
    /\ pc = "reading" /\ HasRow
    /\ ConvertRow(CurrentRow).outcome = "ValueError"
    /\ skipped' = Append(skipped, row_num)
    /\ row_num' = row_num + 1
    /\ UNCHANGED <<pc, csv_rows, load_error, interviewers, total_expected_slots, shift, result, slot_duration, default_slots>>

\* any other exception leaves the loop; the outer handler raises
\* ValueError("Error reading CSV file: ...") and nothing is returned
AbortLoad ==
    /\ pc = "reading" /\ HasRow
    /\ ConvertRow(CurrentRow).outcome \in {"AttributeError", "TypeError"}
    /\ pc' = "load_failed"
    /\ load_error' = "ErrorReadingCsv"
    /\ UNCHANGED <<csv_rows, row_num, skipped, interviewers, total_expected_slots, shift, result, slot_duration, default_slots>>

\* after the last row: no interviewers raises, otherwise the list is returned
FinishLoad ==
    /\ pc = "reading" /\ ~HasRow
    /\ IF interviewers = <<>>
       THEN pc' = "load_failed" /\ load_error' = "NoValidData"
       ELSE pc' = "loaded" /\ load_error' = load_error
    /\ UNCHANGED <<csv_rows, row_num, skipped, interviewers, total_expected_slots, shift, result, slot_duration, default_slots>>

NextRead == AppendRow \/ SkipRow \/ AbortLoad \/ FinishLoad

SpecRead == InitRead /\ [][NextRead]_vars

(***************************************************************************)
(* calculate_default_slots                                                 *)
(***************************************************************************)
\* slot_duration <= 0 is rejected (the model passes ints only)
ValidDuration(duration) == duration > 0

\* Variant: round() instead of int().
RoundedQuotient(minutes, duration) == (2 * minutes + duration) \div (2 * duration)

\* int(minutes / slot_duration): the quotient cut towards zero.  The float
\* quotient of two ints is correctly rounded and is below the next integer
\* by at least 1/slot_duration, so cutting it gives the exact integer part.
IntOfQuotient(minutes, duration) ==
    IF (minutes >= 0) = (duration > 0)
    THEN (IF minutes >= 0 THEN minutes ELSE 0 - minutes)
             \div (IF duration > 0 THEN duration ELSE 0 - duration)
    ELSE 0 - ((IF minutes >= 0 THEN minutes ELSE 0 - minutes)
                 \div (IF duration > 0 THEN duration ELSE 0 - duration))

Returned(v) == [status |-> "ok", value |-> v]

calculate_default_slots(sh0, duration) ==
    IF ~ValidDuration(duration) THEN Raised("InvalidDuration")
    ELSE LET sh == Lower(sh0) IN
    IF sh = "day" THEN Returned(IntOfQuotient(14 * 60, duration))
    ELSE IF sh = "night" THEN Returned(IntOfQuotient(10 * 60, duration))
    ELSE Raised("InvalidShift")

Durations == (0 - 2)..MaxDuration

InitSlots ==
    /\ pc = "start"
    /\ csv_rows = <<>>
    /\ row_num = 2
    /\ skipped = <<>>
    /\ load_error = ""
    /\ interviewers = <<>>
    /\ total_expected_slots = 0
    /\ shift \in Shifts
    /\ result = NoResult
    /\ slot_duration \in Durations
    /\ default_slots = NoResult

\* main: total_expected_slots = calculate_default_slots(args.shift, args.duration)
CalculateDefaultSlots ==
    /\ pc = "start"
    /\ default_slots' = calculate_default_slots(shift, slot_duration)
    /\ total_expected_slots' =
          IF default_slots'.status = "ok" THEN default_slots'.value ELSE total_expected_slots
    /\ pc' = "slots_done"
    /\ UNCHANGED <<csv_rows, row_num, skipped, load_error, interviewers, shift, result,
                   slot_duration>>

NextSlots == CalculateDefaultSlots

SpecSlots == InitSlots /\ [][NextSlots]_vars

(***************************************************************************)
(* Vocabulary of the properties, read off the call's arguments.            *)
(***************************************************************************)
Called == pc = "done"
Succeeded == Called /\ result.status = "ok"
ChosenShift == Lower(shift)
ShiftKnown == ChosenShift \in {"day", "night"}

IsAvailable(iv) == IF ChosenShift = "day" THEN iv.Day_Available ELSE iv.Night_Available
Capacity(iv) == IF ChosenShift = "day" THEN iv.Day_Slots ELSE iv.Night_Slots

Eligible == {i \in DOMAIN interviewers : IsAvailable(interviewers[i])}

RECURSIVE SumOver(_, _)
SumOver(f, S) ==
    IF S = {} THEN 0
    ELSE LET x == CHOOSE y \in S : TRUE IN f[x] + SumOver(f, S \ {x})

TotalCapacity == SumOver([i \in Eligible |-> Capacity(interviewers[i])], Eligible)
AssignedTotal == SumOver(result.assignments, DOMAIN result.assignments)
Assigned(i) == result.assignments[interviewers[i].Interviewer_ID]
Baseline(i) == (Capacity(interviewers[i]) * total_expected_slots) \div TotalCapacity

\* C1: after a successful assign_slots every available interviewer is assigned
\* between 0 and its slot limit for the chosen shift.
C1_WithinCapacity ==
    Succeeded =>
        \A i \in Eligible : 0 <= Assigned(i) /\ Assigned(i) <= Capacity(interviewers[i])

\* C2: when the target is at most the total capacity of the available
\* interviewers, the returned assignment sums to exactly the target.
C2_ExactTotal ==
    (Succeeded /\ total_expected_slots <= TotalCapacity) => AssignedTotal = total_expected_slots

\* C2 witness: three available interviewers, a target within capacity, and a
\* leftover slot handed out on top of a floor share.
C2_Witness ==
    /\ Succeeded
    /\ Cardinality(Eligible) = 3
    /\ total_expected_slots < TotalCapacity
    /\ \E i, j \in Eligible : Assigned(i) = Baseline(i) + 1 /\ Assigned(j) = Baseline(j)
    /\ AssignedTotal = total_expected_slots

\* C3: when the target exceeds the total capacity, every available
\* interviewer is assigned exactly its slot limit.
C3_ShortfallSaturates ==
    (Succeeded /\ total_expected_slots > TotalCapacity) =>
        \A i \in Eligible : Assigned(i) = Capacity(interviewers[i])

\* C4: the returned assignment never sums to more than the target.
C4_TotalAtMostTarget == Succeeded => AssignedTotal <= total_expected_slots

\* C4 witness: a successful call that leaves part of the target unassigned.
C4_Witness ==
    /\ Succeeded
    /\ Cardinality(Eligible) >= 2
    /\ AssignedTotal < total_expected_slots
    /\ AssignedTotal > 0

\* The calls that must fail: a non-positive target, nobody available for the
\* chosen shift, or only zero slot limits among the available.
MustFail(ivs, total, sh) ==
    \/ total <= 0
    \/ /\ Lower(sh) \in {"day", "night"}
       /\ LET able == {i \in DOMAIN ivs :
                          IF Lower(sh) = "day" THEN ivs[i].Day_Available
                                               ELSE ivs[i].Night_Available}
          IN \/ able = {}
             \/ \A i \in able :
                   (IF Lower(sh) = "day" THEN ivs[i].Day_Slots ELSE ivs[i].Night_Slots) = 0

\* C5: a call with a non-positive target, with no interviewer available for
\* the shift, or with only zero-capacity interviewers available raises an
\* error, returns no assignment, and leaves the input records as they were.
C5_ErrorsRaised ==
    [][(pc = "loaded" /\ pc' = "done"
          /\ MustFail(interviewers, total_expected_slots', shift'))
       => /\ result'.status = "error"
          /\ "assignments" \notin DOMAIN result'
          /\ interviewers' = interviewers]_vars

\* C5 witness: a positive target and two available interviewers, both with a
\* slot limit of 0, end in the zero-capacity error.
C5_Witness ==
    /\ Called
    /\ total_expected_slots > 0
    /\ ShiftKnown
    /\ Cardinality(Eligible) >= 2
    /\ TotalCapacity = 0
    /\ result = Raised("NoAvailableSlots")

\* C6: a target above the total capacity (>= 1) of the available interviewers
\* raises no error, returns an assignment and emits the shortfall warning.
C6_ShortfallWarned ==
    (Called /\ ShiftKnown /\ Eligible # {} /\ TotalCapacity >= 1
        /\ total_expected_slots > TotalCapacity)
    => (result.status = "ok" /\ result.shortfall_warning)

\* The list orders of the same records.
Reorderings(ivs) ==
    {[i \in DOMAIN ivs |-> ivs[p[i]]] :
        p \in {q \in [DOMAIN ivs -> DOMAIN ivs] : \A i, j \in DOMAIN ivs : q[i] = q[j] => i = j}}

Outcome(r) == IF r.status = "ok" THEN r.assignments ELSE r

\* C7: with unique ids, assign_slots returns the same id-to-slots mapping (or
\* the same error) for every list order of the same records.
C7_OrderIndependent ==
    (Called /\ UniqueIds(interviewers)) =>
        \A ivs \in Reorderings(interviewers) :
            Outcome(assign_slots(ivs, total_expected_slots, shift)) = Outcome(result)

\* C7 witness: the records are listed in descending id order and a leftover
\* slot separates two available interviewers with tied remainders.
C7_Witness ==
    /\ Succeeded
    /\ Len(interviewers) = 3
    /\ \A i, j \in DOMAIN interviewers :
          i < j => IdLess(interviewers[j].Interviewer_ID, interviewers[i].Interviewer_ID)
    /\ \E i, j \in Eligible :
          /\ Capacity(interviewers[i]) = Capacity(interviewers[j])
          /\ Assigned(i) = Assigned(j) + 1

\* C8: of two available interviewers with equal slot limits, the one with the
\* smaller id is never assigned fewer slots; an extra slot only one of them
\* gets goes to the smaller id.
C8_TieBreakSmallerId ==
    Succeeded =>
        \A i, j \in Eligible :
            (/\ Capacity(interviewers[i]) = Capacity(interviewers[j])
             /\ IdLess(interviewers[i].Interviewer_ID, interviewers[j].Interviewer_ID))
            => Assigned(i) >= Assigned(j)

\* C8 witness: the larger id is listed first, yet the only extra slot of the
\* pair went to the smaller id.
C8_Witness ==
    /\ Succeeded
    /\ \E i, j \in Eligible :
          /\ j < i
          /\ Capacity(interviewers[i]) = Capacity(interviewers[j])
          /\ IdLess(interviewers[i].Interviewer_ID, interviewers[j].Interviewer_ID)
          /\ Assigned(i) = Baseline(i) + 1
          /\ Assigned(j) = Baseline(j)

\* The available records alone, their other-shift columns blanked.
Blanked(iv) ==
    IF ChosenShift = "day"
    THEN [iv EXCEPT !.Night_Available = FALSE, !.Night_Slots = 0]
    ELSE [iv EXCEPT !.Day_Available = FALSE, !.Day_Slots = 0]

RECURSIVE EligibleOnly(_)
EligibleOnly(ivs) ==
    IF ivs = <<>> THEN <<>>
    ELSE IF IsAvailable(Head(ivs)) THEN <<Blanked(Head(ivs))>> \o EligibleOnly(Tail(ivs))
    ELSE EligibleOnly(Tail(ivs))

RECURSIVE KeepEligible(_)
KeepEligible(ivs) ==
    IF ivs = <<>> THEN <<>>
    ELSE IF IsAvailable(Head(ivs)) THEN <<Head(ivs)>> \o KeepEligible(Tail(ivs))
    ELSE KeepEligible(Tail(ivs))

\* C10: a successful call returns an entry for exactly the interviewers
\* available for the chosen shift and the list of exactly those records, and
\* the entries are those of the call on the available records alone with
\* their other-shift columns blanked.
C10_EligibilityFilter ==
    Succeeded =>
        /\ DOMAIN result.assignments = {interviewers[i].Interviewer_ID : i \in Eligible}
        /\ result.available = KeepEligible(interviewers)
        /\ result.assignments =
             assign_slots(EligibleOnly(interviewers), total_expected_slots, shift).assignments

\* C10 witness: a night call where one interviewer is unavailable but has
\* night capacity, and an available one is also available by day.
C10_Witness ==
    /\ Succeeded
    /\ ChosenShift = "night"
    /\ \E i \in DOMAIN interviewers \ Eligible :
          interviewers[i].Night_Slots > 0 /\ interviewers[i].Day_Available
    /\ \E i \in Eligible : interviewers[i].Day_Available /\ interviewers[i].Day_Slots > 0
    /\ \E i \in Eligible : ~interviewers[i].Day_Available
    /\ AssignedTotal = total_expected_slots

(***************************************************************************)
(* Vocabulary of the load property: what makes a data row well-formed.     *)
(***************************************************************************)
FlagTexts == {"True", "FALSE", " false "}
WellFormed(row) ==
    /\ row.Day_Available \in FlagTexts
    /\ row.Night_Available \in FlagTexts
    /\ row.Day_Slots \in {"0", "2", " 1 "}
    /\ row.Night_Slots \in {"0", "2", " 1 "}

WellFormedRows == {k \in DOMAIN csv_rows : WellFormed(csv_rows[k])}

RECURSIVE Ascending(_)
Ascending(S) ==
    IF S = {} THEN <<>>
    ELSE LET m == CHOOSE x \in S : \A y \in S : x <= y IN <<m>> \o Ascending(S \ {m})

\* C9: every malformed data row is skipped and logged without aborting the
\* load: the load fails only when the file has no well-formed row, and
\* otherwise returns one record per well-formed row, in file order, having
\* logged every other row.
C9_MalformedRowsSkipped ==
    /\ pc = "load_failed" => WellFormedRows = {}
    /\ pc = "loaded" =>
          /\ [k \in DOMAIN interviewers |-> interviewers[k].Interviewer_ID]
               = [k \in 1..Cardinality(WellFormedRows) |->
                     csv_rows[Ascending(WellFormedRows)[k]].Interviewer_ID]
          /\ skipped = Ascending({k + 1 : k \in DOMAIN csv_rows \ WellFormedRows})

\* n is the integer part of minutes / slot_duration
IsFloorOf(n, minutes) ==
    n * slot_duration <= minutes /\ minutes < (n + 1) * slot_duration

\* C11: calculate_default_slots returns floor(840 / slot_duration) for the day
\* shift and floor(600 / slot_duration) for the night shift for every positive
\* slot_duration (day/40 is 21, night/40 is 15, day/30 is 28), and raises an
\* error, returning no value, whenever slot_duration <= 0.
C11_DefaultSlots ==
    pc = "slots_done" =>
        /\ (slot_duration > 0 /\ Lower(shift) = "day") =>
              /\ default_slots.status = "ok"
              /\ IsFloorOf(default_slots.value, 840)
              /\ slot_duration = 40 => default_slots.value = 21
              /\ slot_duration = 30 => default_slots.value = 28
        /\ (slot_duration > 0 /\ Lower(shift) = "night") =>
              /\ default_slots.status = "ok"
              /\ IsFloorOf(default_slots.value, 600)
              /\ slot_duration = 40 => default_slots.value = 15
        /\ slot_duration <= 0 =>
              /\ default_slots.status = "error"
              /\ "value" \notin DOMAIN default_slots

\* C11 witness: a night shift cut into 45-minute slots, which do not divide
\* the 600 minutes, yields 13.
C11_Witness ==
    /\ pc = "slots_done"
    /\ Lower(shift) = "night"
    /\ slot_duration = 45
    /\ default_slots = Returned(13)

====
